---- MODULE Spec2Model ----
(***************************************************************************)
(* Model of homeassistant/helpers/storage.py: class Store.                 *)
(*                                                                         *)
(* The store runs on one asyncio event loop.  Every action below is one    *)
(* uninterrupted run of a coroutine or callback between two suspension     *)
(* points (await of an executor job, of a task, of the write lock, of a    *)
(* timer or of a bus event).  Blocking file I/O runs in executor jobs that *)
(* take effect at a step of their own.                                     *)
(*                                                                         *)
(* Payloads are tuples: <<>> is Python's None, <<"req", r>> the payload of *)
(* the r-th save request, <<"stored", v>> the payload of a file that was   *)
(* on disk before the store was constructed.                               *)
(***************************************************************************)
EXTENDS Integers, Sequences

\* Bound of the model: the calls of async_save, async_delay_save,
\* async_load and async_remove made in one behaviour.
MaxCalls == 3

\* Store.__init__: self.version = version.  Files written by an earlier
\* release carry the previous version.
version == 2
StoredVersions == {version - 1, version}

VARIABLES
    hass_state,                   \* hass.state: "running", "stopping", "final_write"
    final_write_fired,            \* EVENT_HOMEASSISTANT_FINAL_WRITE has been fired
    _data,                        \* self._data: the pending write, or NoData
    _unsub_delay_listener,        \* self._unsub_delay_listener: 0 (None) or a timer id
    _unsub_final_write_listener,  \* self._unsub_final_write_listener: 0 or a listener id
    _load_task,                   \* self._load_task: 0 (None) or a task id
    _write_lock,                  \* self._write_lock: FIFO of write jobs, head holds the lock
    file,                         \* the JSON file at self.path
    timers,                       \* async_call_later handles, by id
    listeners,                    \* bus listeners for the final-write event, by id
    tasks,                        \* the _async_load tasks ever created, by id
    callers,                      \* the async_load() calls ever issued, by id
    requests,                     \* the save requests ever issued, by id
    \* history variables, read by the properties only
    superseded,                   \* requests overwritten in _data before any flush took them
    flushes,                      \* requests handed to a physical write, in order
    completed,                    \* requests whose physical write finished without error
    flush_errors,                 \* flush routine runs that found self._data is None
    cancelled_by_save,            \* timers still armed when an async_save superseded them
    pending_at_final_write,       \* request pending when the final-write event fired, or 0
    \* the entry points beside the save and load paths
    removes,                      \* the async_remove() calls ever issued, by id
    old_file,                     \* the legacy file at old_path exists
    migrator                      \* the async_migrator call: its position and its save

vars == <<hass_state, final_write_fired, _data, _unsub_delay_listener,
          _unsub_final_write_listener, _load_task, _write_lock, file, timers,
          listeners, tasks, callers, requests, superseded,
          flushes, completed, flush_errors, cancelled_by_save,
          pending_at_final_write, removes, old_file, migrator>>

host_vars  == <<hass_state, final_write_fired, pending_at_final_write>>
save_vars  == <<_data, _unsub_delay_listener, _unsub_final_write_listener,
                timers, listeners, requests, superseded, flushes,
                flush_errors, cancelled_by_save>>
write_vars == <<_write_lock, file, completed>>
load_vars  == <<_load_task, tasks, callers>>
ext_vars   == <<removes, old_file, migrator>>
store_vars == <<host_vars, save_vars, load_vars, write_vars>>

----------------------------------------------------------------------------
\* Values

None == <<>>

\* self._data is None
NoData == [version |-> 0, func |-> FALSE, req |-> 0]

\* json_util.load_json returns {} for a missing file
EmptyFile == [version |-> 0, data |-> None, req |-> 0]

\* The payload of save request r: the `data` argument of async_save, or what
\* the `data_func` argument of async_delay_save returns when it is called.
Payload(r) == <<"req", r>>

\* A subclass's _async_migrate_func(old_version, old_data)
Migrate(old_version, old_data) == <<"migrated", old_version>> \o old_data

\* No async_migrator call: pc is its position, req the save request it made
\* and caller the load() call it made (0: none)
NoMigrator == [pc |-> "idle", req |-> 0, caller |-> 0]

NoTask == [st |-> "none", snap |-> EmptyFile, reads |-> 0, migrations |-> 0,
           mig_args |-> None, result |-> None, pending |-> 0]

----------------------------------------------------------------------------
\* Collaborators: timers and the event bus

\* The callable async_call_later returns: cancels the timer handle.  A handle
\* that has already fired is not affected; its callback is already scheduled.
CancelTimer(tm, id) ==
    IF tm[id].st = "armed" THEN [tm EXCEPT ![id].st = "cancelled"] ELSE tm

\* The callable bus.async_listen_once returns: removes the listener.  A
\* listener the event has already reached still gets its callback.
RemoveListener(ls, id) ==
    IF ls[id] = "armed" THEN [ls EXCEPT ![id] = "removed"] ELSE ls

----------------------------------------------------------------------------
\* Store: listener helpers

\* Store._async_ensure_final_write_listener: the listeners afterwards
_async_ensure_final_write_listener(ls, unsub) ==
    IF unsub = 0 THEN Append(ls, "armed") ELSE ls

\* Store._async_ensure_final_write_listener: self._unsub_final_write_listener
\* afterwards
EnsuredUnsub(ls, unsub) ==
    IF unsub = 0 THEN Len(ls) + 1 ELSE unsub

\* Store._async_cleanup_final_write_listener: the listeners afterwards (the
\* attribute is None afterwards)
_async_cleanup_final_write_listener(ls, unsub) ==
    IF unsub # 0 THEN RemoveListener(ls, unsub) ELSE ls

\* Store._async_cleanup_delay_listener: the timers afterwards (the attribute
\* is None afterwards)
_async_cleanup_delay_listener(tm, unsub) ==
    IF unsub # 0 THEN CancelTimer(tm, unsub) ELSE tm

----------------------------------------------------------------------------
\* Store: save path

\* Variant of PendingWrite: a save request that finds a pending write leaves
\* it in place instead of replacing it
KeepFirstPendingWrite(r, func) ==
    IF _data # NoData THEN _data
    ELSE [version |-> version, func |-> func, req |-> r]

\* The dict async_save (func = FALSE, key "data") and async_delay_save
\* (func = TRUE, key "data_func") assign to self._data
PendingWrite(r, func) == [version |-> version, func |-> func, req |-> r]

\* The dict handed to _write_data once data_func, if present, has been called
WriteJob(d) == [version |-> d.version, data |-> Payload(d.req), req |-> d.req]

\* Variant of _async_handle_write_data: the executor job is submitted
\* without taking self._write_lock
WriteWithoutLock(d) ==
    IF d = NoData
    THEN /\ flush_errors' = flush_errors + 1
         /\ _data' = NoData
         /\ UNCHANGED <<_write_lock, flushes>>
    ELSE /\ _data' = NoData
         /\ flushes' = Append(flushes, d.req)
         /\ _write_lock' = Append(_write_lock,
                [job |-> WriteJob(d), st |-> "writing"])
         /\ UNCHANGED flush_errors

\* Variant of _async_handle_write_data: the pending write stays in the slot
\* while it is written
FlushKeepsPendingWrite(d) ==
    IF d = NoData
    THEN /\ flush_errors' = flush_errors + 1
         /\ _data' = NoData
         /\ UNCHANGED <<_write_lock, flushes>>
    ELSE /\ _data' = d
         /\ flushes' = Append(flushes, d.req)
         /\ _write_lock' = Append(_write_lock,
                [job |-> WriteJob(d),
                 st |-> IF _write_lock = <<>> THEN "writing" ELSE "waiting"])
         /\ UNCHANGED flush_errors

\* Store._async_handle_write_data up to its first suspension, with d the
\* value of self._data when it is entered: `"data_func" in None` raises
\* TypeError; otherwise the slot is cleared and the write lock is taken, at
\* once when it is free and after the waiters before it when it is not.
_async_handle_write_data(d) ==
    IF d = NoData
    THEN /\ flush_errors' = flush_errors + 1
         /\ _data' = NoData
         /\ UNCHANGED <<_write_lock, flushes>>
    ELSE /\ _data' = NoData
         /\ flushes' = Append(flushes, d.req)
         /\ _write_lock' = Append(_write_lock,
                [job |-> WriteJob(d),
                 st |-> IF _write_lock = <<>> THEN "writing" ELSE "waiting"])
         /\ UNCHANGED flush_errors

\* History: what a new save request does to the requests before it
Supersede ==
    /\ superseded' = IF _data # NoData THEN superseded \cup {_data.req}
                     ELSE superseded

ArmedTimers == {t \in DOMAIN timers : timers[t].st = "armed"}

\* Request r was handed to a physical write (its data_func, if any, called)
Flushed(r) == \E i \in DOMAIN flushes : flushes[i] = r

\* Request r holds the write lock or waits for it
InFlight(r) == \E i \in DOMAIN _write_lock : _write_lock[i].job.req = r

\* The calls made so far
Calls == Len(requests) + Len(callers) + Len(removes)

\* Store.async_save, as any caller runs it: what it does to the store
SaveCall ==
    /\ Calls < MaxCalls
    /\ LET r  == Len(requests) + 1
           d  == PendingWrite(r, FALSE)
           tm == _async_cleanup_delay_listener(timers, _unsub_delay_listener)
           ls == _async_cleanup_final_write_listener(
                     listeners, _unsub_final_write_listener)
       IN  /\ requests' = Append(requests, [kind |-> "save", state |-> hass_state])
           /\ Supersede
           /\ cancelled_by_save' = cancelled_by_save \cup ArmedTimers
           /\ timers' = tm
           /\ _unsub_delay_listener' = 0
           /\ IF hass_state = "stopping"
              THEN /\ listeners' = _async_ensure_final_write_listener(ls, 0)
                   /\ _unsub_final_write_listener' = EnsuredUnsub(ls, 0)
                   /\ _data' = d
                   /\ UNCHANGED <<_write_lock, flushes, flush_errors>>
              ELSE /\ listeners' = ls
                   /\ _unsub_final_write_listener' = 0
                   /\ _async_handle_write_data(d)
    /\ UNCHANGED <<host_vars, load_vars, file, completed>>

\* Store.async_save called by the store's owner
async_save == SaveCall /\ UNCHANGED ext_vars

\* Store.async_delay_save
async_delay_save ==
    /\ Calls < MaxCalls
    /\ LET r  == Len(requests) + 1
           d  == PendingWrite(r, TRUE)
           tm == _async_cleanup_delay_listener(timers, _unsub_delay_listener)
           ls == _async_cleanup_final_write_listener(
                     listeners, _unsub_final_write_listener)
       IN  /\ requests' = Append(requests, [kind |-> "delay", state |-> hass_state])
           /\ Supersede
           /\ _data' = d
           /\ listeners' = _async_ensure_final_write_listener(ls, 0)
           /\ _unsub_final_write_listener' = EnsuredUnsub(ls, 0)
           /\ IF hass_state = "stopping"
              THEN /\ timers' = tm
                   /\ _unsub_delay_listener' = 0
              ELSE /\ timers' = Append(tm, [st |-> "armed", req |-> r])
                   /\ _unsub_delay_listener' = Len(tm) + 1
    /\ UNCHANGED <<ext_vars, host_vars, load_vars, write_vars, flushes,
                   flush_errors, cancelled_by_save>>

\* The timer armed by async_call_later expires: the loop schedules
\* _async_callback_delayed_write as a task of its own.
TimerFires ==
    \E t \in DOMAIN timers :
    /\ timers[t].st = "armed"
    /\ timers' = [timers EXCEPT ![t].st = "fired"]
    /\ UNCHANGED <<ext_vars, host_vars, load_vars, write_vars, _data,
                   _unsub_delay_listener, _unsub_final_write_listener,
                   listeners, requests, superseded, flushes, flush_errors,
                   cancelled_by_save>>

\* Variant of _async_callback_delayed_write: it flushes whatever the state
\* of the host
DelayedWriteIgnoresStopping ==
    \E t \in DOMAIN timers :
    /\ timers[t].st = "fired"
    /\ timers' = [timers EXCEPT ![t].st = "ran"]
    /\ _unsub_delay_listener' = 0
    /\ listeners' = _async_cleanup_final_write_listener(
                        listeners, _unsub_final_write_listener)
    /\ _unsub_final_write_listener' = 0
    /\ _async_handle_write_data(_data)
    /\ UNCHANGED <<ext_vars, host_vars, load_vars, file, completed, requests,
                   superseded, cancelled_by_save>>

\* Store._async_callback_delayed_write
_async_callback_delayed_write ==
    \E t \in DOMAIN timers :
    /\ timers[t].st = "fired"
    /\ timers' = [timers EXCEPT ![t].st = "ran"]
    /\ IF hass_state = "stopping"
       THEN /\ listeners' = _async_ensure_final_write_listener(
                                listeners, _unsub_final_write_listener)
            /\ _unsub_final_write_listener' =
                   EnsuredUnsub(listeners, _unsub_final_write_listener)
            /\ UNCHANGED <<_data, _unsub_delay_listener, _write_lock, flushes,
                           flush_errors>>
       ELSE /\ _unsub_delay_listener' = 0
            /\ listeners' = _async_cleanup_final_write_listener(
                                listeners, _unsub_final_write_listener)
            /\ _unsub_final_write_listener' = 0
            /\ _async_handle_write_data(_data)
    /\ UNCHANGED <<ext_vars, host_vars, load_vars, file, completed, requests,
                   superseded, cancelled_by_save>>

\* Variant of _async_callback_final_write: it defers while the host is
\* stopping, as _async_callback_delayed_write does
FinalWriteDefers ==
    \E l \in DOMAIN listeners :
    /\ listeners[l] = "fired"
    /\ IF hass_state = "stopping"
       THEN /\ listeners' = _async_ensure_final_write_listener(
                                [listeners EXCEPT ![l] = "ran"],
                                _unsub_final_write_listener)
            /\ _unsub_final_write_listener' =
                   EnsuredUnsub(listeners, _unsub_final_write_listener)
            /\ UNCHANGED <<_data, _unsub_delay_listener, timers, _write_lock,
                           flushes, flush_errors>>
       ELSE /\ listeners' = [listeners EXCEPT ![l] = "ran"]
            /\ _unsub_final_write_listener' = 0
            /\ timers' = _async_cleanup_delay_listener(
                             timers, _unsub_delay_listener)
            /\ _unsub_delay_listener' = 0
            /\ _async_handle_write_data(_data)
    /\ UNCHANGED <<ext_vars, host_vars, load_vars, file, completed, requests,
                   superseded, cancelled_by_save>>

\* Store._async_callback_final_write
_async_callback_final_write ==
    \E l \in DOMAIN listeners :
    /\ listeners[l] = "fired"
    /\ listeners' = [listeners EXCEPT ![l] = "ran"]
    /\ _unsub_final_write_listener' = 0
    /\ timers' = _async_cleanup_delay_listener(timers, _unsub_delay_listener)
    /\ _unsub_delay_listener' = 0
    /\ _async_handle_write_data(_data)
    /\ UNCHANGED <<ext_vars, host_vars, load_vars, file, completed, requests,
                   superseded, cancelled_by_save>>

----------------------------------------------------------------------------
\* Store: physical writes

\* Store._write_data in the executor: json_util.save_json replaces the file,
\* or raises WriteError / SerializationError and leaves it alone
_write_data ==
    \E ok \in BOOLEAN :
    /\ _write_lock # <<>>
    /\ Head(_write_lock).st = "writing"
    /\ IF ok
       THEN /\ file' = Head(_write_lock).job
            /\ _write_lock' = [_write_lock EXCEPT ![1].st = "ok"]
       ELSE /\ _write_lock' = [_write_lock EXCEPT ![1].st = "error"]
            /\ UNCHANGED file
    /\ UNCHANGED <<ext_vars, host_vars, save_vars, load_vars, completed>>

\* Variant of WriteReturns: a write that failed is put back into the
\* pending-write slot when the slot is empty
WriteReturnsRequeues ==
    /\ _write_lock # <<>>
    /\ Head(_write_lock).st \in {"ok", "error"}
    /\ _write_lock' = [i \in 1..(Len(_write_lock) - 1) |->
                          IF i = 1
                          THEN [_write_lock[2] EXCEPT !.st = "writing"]
                          ELSE _write_lock[i + 1]]
    /\ completed' = IF Head(_write_lock).st = "ok"
                    THEN completed \cup {Head(_write_lock).job.req}
                    ELSE completed
    /\ _data' = IF Head(_write_lock).st = "error" /\ _data = NoData
                THEN PendingWrite(Head(_write_lock).job.req, FALSE)
                ELSE _data
    /\ UNCHANGED <<ext_vars, host_vars, load_vars, file,
                   _unsub_delay_listener, _unsub_final_write_listener,
                   timers, listeners, requests, superseded, flushes,
                   flush_errors, cancelled_by_save>>

\* The executor job is done: the except clause logs an error if there was
\* one, the lock is released and _async_handle_write_data returns.  The
\* lock goes to the waiter that is first in line, which submits its own
\* executor job; nothing the store does can tell a waiter that has been
\* woken from one whose job has not run yet, so the two are one state.
WriteReturns ==
    /\ _write_lock # <<>>
    /\ Head(_write_lock).st \in {"ok", "error"}
    /\ _write_lock' = [i \in 1..(Len(_write_lock) - 1) |->
                          IF i = 1
                          THEN [_write_lock[2] EXCEPT !.st = "writing"]
                          ELSE _write_lock[i + 1]]
    /\ completed' = IF Head(_write_lock).st = "ok"
                    THEN completed \cup {Head(_write_lock).job.req}
                    ELSE completed
    /\ UNCHANGED <<ext_vars, host_vars, save_vars, load_vars, file>>

----------------------------------------------------------------------------
\* Host: the process lifecycle

\* hass.async_stop, stage 1
EnterStopping ==
    /\ hass_state = "running"
    /\ hass_state' = "stopping"
    /\ UNCHANGED <<ext_vars, final_write_fired, pending_at_final_write, save_vars,
                   load_vars, write_vars>>

\* hass.async_stop fires EVENT_HOMEASSISTANT_FINAL_WRITE, once: every
\* listener registered for it gets its callback scheduled.  The store only
\* tests hass.state == CoreState.stopping; whether the host is still in that
\* state while the event is delivered is the host's choice, and both are
\* admitted here.
FireFinalWrite ==
    \E next_state \in {"stopping", "final_write"} :
    /\ hass_state = "stopping"
    /\ ~final_write_fired
    /\ final_write_fired' = TRUE
    /\ hass_state' = next_state
    /\ pending_at_final_write' = _data.req
    /\ listeners' = [l \in DOMAIN listeners |->
                        IF listeners[l] = "armed" THEN "fired" ELSE listeners[l]]
    /\ UNCHANGED <<ext_vars, load_vars, write_vars, _data,
                   _unsub_delay_listener, _unsub_final_write_listener, timers,
                   requests, superseded, flushes, flush_errors,
                   cancelled_by_save>>

----------------------------------------------------------------------------
\* Store: load path

\* Variant of NeedsMigration: only a record newer than self.version is
\* migrated
MigratesNewerOnly(rec) == rec.version > version

\* Store._async_load: data["version"] == self.version fails
NeedsMigration(rec) == rec.version # version

\* The request whose immediate save has returned after a successful write
\* with no save request after it, or 0: what load() is asked to read back
SavedLast ==
    IF /\ requests # <<>>
       /\ requests[Len(requests)].kind = "save"
       /\ requests[Len(requests)].state # "stopping"
       /\ Len(requests) \in completed
    THEN Len(requests) ELSE 0

\* The last async_remove that has returned did so after every save request
\* made so far
RemovedLast ==
    \E i \in DOMAIN removes :
        /\ removes[i].st = "returned"
        /\ removes[i].reqs = Len(requests)

\* Store.async_load up to `await self._load_task`, as any caller runs it: a
\* task is created only when the slot is None.  The call is recorded with
\* what the store held when it was made (removed: 0, or one more than the
\* number of save requests when an async_remove had returned after them all).
LoadCall ==
    /\ Calls < MaxCalls
    /\ LET create == _load_task = 0
           t      == IF create THEN Len(tasks) + 1 ELSE _load_task
           tk     == IF create THEN [NoTask EXCEPT !.st = "scheduled"]
                     ELSE tasks[t]
       IN  /\ tasks' = IF create THEN Append(tasks, tk) ELSE tasks
           /\ _load_task' = t
           /\ callers' = Append(callers,
                  [task     |-> t,
                   joined   |-> tk.st \in {"reading", "read", "migrating"}
                                    \/ (~create /\ tk.st = "scheduled"),
                   replayed |-> tk.st \in {"done", "failed"},
                   pending  |-> _data.req,
                   saved    |-> SavedLast,
                   removed  |-> IF RemovedLast THEN Len(requests) + 1
                                ELSE 0])
    /\ UNCHANGED <<host_vars, save_vars, write_vars>>

\* Store.async_load called by the store's owner
async_load == LoadCall /\ UNCHANGED ext_vars

\* Store.async_load, `return await self._load_task`: the call returns the
\* task's result, or raises its exception, once the task has finished (at
\* once when it had finished before the call)
Outcome(c) ==
    CASE tasks[callers[c].task].st = "done"   -> "returned"
      [] tasks[callers[c].task].st = "failed" -> "raised"
      [] OTHER                                -> "waiting"

Result(c) == tasks[callers[c].task].result

\* Store._async_load from `if data["version"] == self.version` on, for task
\* t with record tk and the record rec it got from self._data or the file.
\* _async_migrate_func either raises before it suspends (raises = TRUE: the
\* default implementation, which raises NotImplementedError, or an override
\* that does the same) or suspends and finishes in MigrationReturns.
LoadDecide(t, tk, rec, raises) ==
    IF ~NeedsMigration(rec)
    THEN /\ tasks' = [tasks EXCEPT ![t] =
                         [tk EXCEPT !.st = "done", !.result = rec.data]]
         /\ _load_task' = 0
    ELSE /\ tasks' = [tasks EXCEPT ![t] =
                         [tk EXCEPT !.st = IF raises THEN "failed"
                                           ELSE "migrating",
                                    !.migrations = @ + 1,
                                    !.mig_args = <<rec.version, rec.data>>]]
         /\ UNCHANGED _load_task

\* Store._async_load, first run of the task: a pending write is served from
\* memory (calling data_func and storing its result in the pending dict);
\* otherwise the read is handed to the executor.
_async_load ==
    \E t \in DOMAIN tasks, raises \in BOOLEAN :
    /\ tasks[t].st = "scheduled"
    /\ raises => _data # NoData /\ NeedsMigration(_data)
    /\ IF _data # NoData
       THEN /\ _data' = [_data EXCEPT !.func = FALSE]
            /\ LoadDecide(t, [tasks[t] EXCEPT !.pending = _data.req],
                          [version |-> _data.version,
                           data |-> Payload(_data.req)], raises)
       ELSE /\ tasks' = [tasks EXCEPT ![t].st = "reading"]
            /\ UNCHANGED <<_data, _load_task>>
    /\ UNCHANGED <<ext_vars, host_vars, write_vars, callers,
                   _unsub_delay_listener, _unsub_final_write_listener, timers,
                   listeners, requests, superseded, flushes, flush_errors,
                   cancelled_by_save>>

\* json_util.load_json in the executor
load_json ==
    \E t \in DOMAIN tasks :
    /\ tasks[t].st = "reading"
    /\ tasks' = [tasks EXCEPT ![t].st = "read", ![t].snap = file,
                              ![t].reads = @ + 1]
    /\ UNCHANGED <<ext_vars, host_vars, save_vars, write_vars, _load_task,
                   callers>>

\* Store._async_load resumed with what load_json returned
ReadReturns ==
    \E t \in DOMAIN tasks, raises \in BOOLEAN :
    /\ tasks[t].st = "read"
    /\ raises => NeedsMigration(tasks[t].snap) /\ tasks[t].snap # EmptyFile
    /\ IF tasks[t].snap = EmptyFile
       THEN /\ tasks' = [tasks EXCEPT ![t].st = "done", ![t].result = None]
            /\ UNCHANGED _load_task
       ELSE LoadDecide(t, tasks[t], tasks[t].snap, raises)
    /\ UNCHANGED <<ext_vars, host_vars, save_vars, write_vars, callers>>

\* Store._async_load resumed by an overriding _async_migrate_func, which
\* returns the migrated payload (ok) or raises
MigrationReturns ==
    \E t \in DOMAIN tasks, ok \in BOOLEAN :
    /\ tasks[t].st = "migrating"
    /\ IF ok
       THEN /\ tasks' = [tasks EXCEPT
                   ![t].st = "done",
                   ![t].result = Migrate(tasks[t].mig_args[1],
                                         tasks[t].mig_args[2])]
            /\ _load_task' = 0
       ELSE /\ tasks' = [tasks EXCEPT ![t].st = "failed"]
            /\ UNCHANGED _load_task
    /\ UNCHANGED <<ext_vars, host_vars, save_vars, write_vars, callers>>

----------------------------------------------------------------------------
\* Store: removal

\* Store.async_remove up to its suspension: os.unlink is handed to the
\* executor.  No attribute of the store is read or written.
async_remove ==
    /\ Calls < MaxCalls
    /\ removes' = Append(removes, [st |-> "unlinking", err |-> "none",
                                   reqs |-> 0])
    /\ UNCHANGED <<store_vars, old_file, migrator>>

\* Variant of RemoveOutcome: FileNotFoundError is raised like any other error
RaisesFileNotFound(err) ==
    IF err = "none" THEN "returned" ELSE "raised"

\* Store.async_remove, the try statement: FileNotFoundError is passed over,
\* any other exception of os.unlink leaves the coroutine
RemoveOutcome(err) ==
    IF err \in {"none", "FileNotFoundError"} THEN "returned" ELSE "raised"

\* os.unlink in the executor, and async_remove resumed with its outcome: a
\* missing file gives FileNotFoundError; a file that is there is deleted, or
\* the call fails with another OSError (denied) and leaves it.  The call is
\* recorded with the number of save requests made when it ended.
os_unlink ==
    \E i \in DOMAIN removes, denied \in BOOLEAN :
    /\ removes[i].st = "unlinking"
    /\ denied => file # EmptyFile
    /\ LET err == IF file = EmptyFile THEN "FileNotFoundError"
                  ELSE IF denied THEN "PermissionError" ELSE "none"
       IN  /\ file' = IF err = "none" THEN EmptyFile ELSE file
           /\ removes' = [removes EXCEPT ![i] =
                              [st |-> RemoveOutcome(err), err |-> err,
                               reqs |-> Len(requests)]]
    /\ UNCHANGED <<host_vars, save_vars, load_vars, _write_lock, completed,
                   old_file, migrator>>

----------------------------------------------------------------------------
\* async_migrator

\* async_migrator, load_old_config in the executor: None when old_path is
\* not a file, its content otherwise
load_old_config ==
    /\ migrator.pc = "start"
    /\ migrator' = [migrator EXCEPT
                       !.pc = IF old_file THEN "config" ELSE "no_config"]
    /\ UNCHANGED <<store_vars, removes, old_file>>

\* async_migrator, `return await store.async_load()`: the migrator returns
\* what that call returns
MigratorLoads ==
    /\ migrator.pc = "no_config"
    /\ LoadCall
    /\ migrator' = [migrator EXCEPT !.pc = "loading",
                                    !.caller = Len(callers) + 1]
    /\ UNCHANGED <<removes, old_file>>

\* Store.async_save has returned for request r: at once when it deferred to
\* the final-write listener, after the physical write otherwise
SaveReturned(r) ==
    \/ requests[r].state = "stopping"
    \/ Flushed(r) /\ ~InFlight(r)

\* async_migrator with the old config at hand: old_conf_migrate_func, when
\* given, transforms it or raises; then store.async_save(config) is called
MigratorSaves ==
    \E raises \in BOOLEAN :
    /\ migrator.pc = "config"
    /\ IF raises
       THEN /\ migrator' = [migrator EXCEPT !.pc = "failed"]
            /\ UNCHANGED store_vars
       ELSE /\ SaveCall
            /\ migrator' = [migrator EXCEPT !.pc = "saving",
                                            !.req = Len(requests) + 1]
    /\ UNCHANGED <<removes, old_file>>

\* async_migrator resumed by async_save returning: os.remove(old_path) in
\* the executor, then `return config`
os_remove ==
    /\ migrator.pc = "saving"
    /\ SaveReturned(migrator.req)
    /\ old_file' = FALSE
    /\ migrator' = [migrator EXCEPT !.pc = "done"]
    /\ UNCHANGED <<store_vars, removes>>

----------------------------------------------------------------------------
\* Specification

\* Store.__init__, over the files the store may find
InitStore ==
    /\ hass_state = "running"
    /\ final_write_fired = FALSE
    /\ _data = NoData
    /\ _unsub_delay_listener = 0
    /\ _unsub_final_write_listener = 0
    /\ _load_task = 0
    /\ _write_lock = <<>>
    /\ file \in {EmptyFile} \cup
           {[version |-> v, data |-> <<"stored", v>>, req |-> 0] :
                v \in StoredVersions}
    /\ timers = <<>>
    /\ listeners = <<>>
    /\ tasks = <<>>
    /\ callers = <<>>
    /\ requests = <<>>
    /\ superseded = {}
    /\ flushes = <<>>
    /\ completed = {}
    /\ flush_errors = 0
    /\ cancelled_by_save = {}
    /\ pending_at_final_write = 0
    /\ removes = <<>>

\* A store used through its own methods only
Init ==
    /\ InitStore
    /\ old_file = FALSE
    /\ migrator = NoMigrator

Next ==
    \/ async_save
    \/ async_delay_save
    \/ TimerFires
    \/ _async_callback_delayed_write
    \/ _async_callback_final_write
    \/ _write_data
    \/ WriteReturns
    \/ EnterStopping
    \/ FireFinalWrite
    \/ async_load
    \/ _async_load
    \/ load_json
    \/ ReadReturns
    \/ MigrationReturns

Spec == Init /\ [][Next]_vars

\* A store created where no file exists yet: every file it reads is one it
\* wrote, at self.version, so _async_migrate_func is never called
InitNewStore ==
    /\ Init
    /\ file = EmptyFile

NextNewStore ==
    \/ async_save
    \/ async_delay_save
    \/ TimerFires
    \/ _async_callback_delayed_write
    \/ _async_callback_final_write
    \/ _write_data
    \/ WriteReturns
    \/ EnterStopping
    \/ FireFinalWrite
    \/ async_load
    \/ _async_load
    \/ load_json
    \/ ReadReturns

SpecNewStore == InitNewStore /\ [][NextNewStore]_vars

\* The new store with async_remove among its calls
NextRemove ==
    \/ NextNewStore
    \/ async_remove
    \/ os_unlink

SpecRemove == InitNewStore /\ [][NextRemove]_vars

\* A store set up through async_migrator, with or without a legacy file
InitMigrator ==
    /\ InitStore
    /\ old_file \in BOOLEAN
    /\ migrator = [NoMigrator EXCEPT !.pc = "start"]

NextMigrator ==
    \/ Next
    \/ load_old_config
    \/ MigratorLoads
    \/ MigratorSaves
    \/ os_remove

SpecMigrator == InitMigrator /\ [][NextMigrator]_vars

----------------------------------------------------------------------------
\* Properties

\* No callback is scheduled and not yet run
Quiescent ==
    /\ \A l \in DOMAIN listeners : listeners[l] # "fired"
    /\ \A t \in DOMAIN timers : timers[t].st # "fired"

Finished(c) == Outcome(c) # "waiting"

\* C1: a save request that is overwritten by a later save request before any
\* flush took it is never handed to a physical write, and its payload is
\* never in the file.
C1_LastWriteWins ==
    \A r \in superseded :
        /\ ~Flushed(r)
        /\ ~InFlight(r)
        /\ file.req # r

\* C1: a request was overwritten and the request after it is in the file
C1_Witness ==
    \E r \in superseded : file.req = r + 1 /\ file.data = Payload(r + 1)

\* C2: load() calls issued while no save is pending are served by one file
\* read performed for them: the read happens exactly once, the migration at
\* most once, and all callers of the cycle get the same result.
C2_SingleFlightLoad ==
    \A c \in DOMAIN callers :
        (/\ Finished(c)
         /\ callers[c].pending = 0
         /\ tasks[callers[c].task].pending = 0)
        => /\ ~callers[c].replayed
           /\ tasks[callers[c].task].reads = 1
           /\ tasks[callers[c].task].migrations <= 1
           /\ \A c2 \in DOMAIN callers :
                  (Finished(c2) /\ callers[c2].task = callers[c].task)
                  => /\ Outcome(c2) = Outcome(c)
                     /\ Result(c2) = Result(c)

\* C3: a load() called after an immediate save has returned from a
\* successful write, with no save request in between and no load cycle
\* still running, returns the saved payload.
C3_ReadYourWrite ==
    \A c \in DOMAIN callers :
        (/\ Finished(c)
         /\ ~callers[c].joined
         /\ callers[c].saved # 0
         /\ Len(requests) = callers[c].saved)
        => /\ Outcome(c) = "returned"
           /\ Result(c) = Payload(callers[c].saved)

\* C4: a delay timer that is still armed when async_save is called is
\* cancelled and stays so (it never expires, its callback never runs), and
\* the delayed request it was armed for is never flushed nor written.
C4_Supersession ==
    \A t \in cancelled_by_save :
        /\ timers[t].st = "cancelled"
        /\ ~Flushed(timers[t].req)
        /\ ~InFlight(timers[t].req)
        /\ file.req # timers[t].req

\* C5: a delayed save made while running that is still the pending write
\* when the final-write event fires has been flushed exactly once when the
\* scheduled callbacks have run, and no request is ever flushed twice.
C5_ShutdownFlush ==
    /\ \A i, j \in DOMAIN flushes : flushes[i] = flushes[j] => i = j
    /\ LET r == pending_at_final_write
       IN  (/\ r # 0
            /\ requests[r].kind = "delay"
            /\ requests[r].state = "running"
            /\ r \notin superseded
            /\ Quiescent)
           => Flushed(r)

\* C5: the timer expired during shutdown, its callback deferred, and the
\* final-write callback put the delayed payload in the file
C5_Witness ==
    LET r == pending_at_final_write
    IN  /\ r # 0
        /\ requests[r].kind = "delay"
        /\ requests[r].state = "running"
        /\ hass_state = "stopping"
        /\ \E t \in DOMAIN timers : timers[t].req = r /\ timers[t].st = "ran"
        /\ flushes = <<r>>
        /\ file.data = Payload(r)

\* C6: a load cycle that read a non-empty file called the migration function
\* exactly when the stored version differs from self.version, once, with the
\* stored version and payload; it returns the migration's result, or the
\* stored payload verbatim, and so does every load() awaiting it.
C6_MigrationOnLoad ==
    \A t \in DOMAIN tasks :
        LET tk == tasks[t]
            differs == tk.snap.version # version
        IN  /\ tk.reads <= 1
            /\ (/\ tk.st \in {"migrating", "done", "failed"}
                /\ tk.reads = 1
                /\ tk.snap # EmptyFile)
               => /\ tk.migrations = IF differs THEN 1 ELSE 0
                  /\ differs => tk.mig_args = <<tk.snap.version, tk.snap.data>>
                  /\ tk.st = "done" =>
                        tk.result = IF differs
                                    THEN Migrate(tk.snap.version, tk.snap.data)
                                    ELSE tk.snap.data

\* C6: a load() returned the migrated payload of a file of another version
C6_Witness ==
    \E c \in DOMAIN callers :
        /\ Outcome(c) = "returned"
        /\ tasks[callers[c].task].migrations = 1
        /\ Result(c) = Migrate(version - 1, <<"stored", version - 1>>)

\* C7: after a load cycle that migrated has finished, and with no save
\* request made, the store holds the migrated payload at self.version, in
\* the file or as the pending write, and no second migration happens.
C7_MigrationPersisted ==
    \A t \in DOMAIN tasks :
        (/\ tasks[t].st = "done"
         /\ tasks[t].migrations = 1
         /\ requests = <<>>)
        => /\ \/ file.version = version /\ file.data = tasks[t].result
              \/ _data.version = version
           /\ \A u \in DOMAIN tasks : u # t => tasks[u].migrations = 0

\* C8: when the migration function raises, every caller that awaited the
\* cycle gets the failure and the load handle is cleared.
C8_NoPoisoning ==
    \A t \in DOMAIN tasks :
        tasks[t].st = "failed"
        => /\ _load_task # t
           /\ \A c \in DOMAIN callers :
                  callers[c].task = t => Outcome(c) = "raised"

\* C9: a load cycle that has finished with a result (pending write served,
\* empty file, equal versions, migration done) is no longer in the load
\* handle slot.
C9_HandleCleared ==
    \A t \in DOMAIN tasks : tasks[t].st = "done" => _load_task # t

\* C10: a load() issued while a pending write exists returns the payload of
\* that pending write (or of a save request that replaced it), without a
\* file read, and leaves the pending write in place.
C10_NoStaleLoad ==
    \A c \in DOMAIN callers :
        (Finished(c) /\ callers[c].pending # 0)
        => /\ Outcome(c) = "returned"
           /\ \E r \in callers[c].pending..Len(requests) :
                  Result(c) = Payload(r)
           /\ tasks[callers[c].task].reads = 0

\* C11: at most one physical write to the store's file is in flight: of the
\* write jobs that have entered the flush routine, only the holder of the
\* write lock has an executor job submitted, running or just finished; all
\* others wait for the lock.
C11_WriteMutualExclusion ==
    \A i, j \in DOMAIN _write_lock :
        (_write_lock[i].st # "waiting" /\ _write_lock[j].st # "waiting")
        => i = j

\* C11: three flushes overlap (an immediate save, a timer callback or the
\* final-write callback among them); one writes, two wait
C11_Witness ==
    /\ Len(_write_lock) = 3
    /\ _write_lock[1].st = "writing"
    /\ _write_lock[2].st = "waiting"
    /\ _write_lock[3].st = "waiting"

\* The physical write of request r has ended with WriteError or
\* SerializationError
Failed(r) == Flushed(r) /\ ~InFlight(r) /\ r \notin completed

\* C12: requests are flushed, queued for the write lock and written in the
\* order of their arrival: a job yet to be written is newer than what the
\* file holds, the file never holds less than a finished write, and when no
\* write is pending or in flight and the write of the most recent request
\* succeeded, the file holds that request's payload.
C12_WriteOrder ==
    /\ \A i, j \in DOMAIN flushes : i < j => flushes[i] < flushes[j]
    /\ \A i, j \in DOMAIN _write_lock :
           i < j => _write_lock[i].job.req < _write_lock[j].job.req
    /\ \A i \in DOMAIN _write_lock :
           _write_lock[i].st # "ok" => file.req < _write_lock[i].job.req
    /\ \A r \in completed : r <= file.req
    /\ (_data = NoData /\ requests # <<>>) => Flushed(Len(requests))
    /\ (/\ _data = NoData
        /\ _write_lock = <<>>
        /\ requests # <<>>
        /\ ~Failed(Len(requests)))
       => /\ file.req = Len(requests)
          /\ file.data = Payload(Len(requests))

\* C12: a save arrived while the write of the request before it was in
\* flight; that write is in the file and the newer request waits for its own
C12_Witness ==
    /\ Len(_write_lock) = 2
    /\ _write_lock[1].st = "ok"
    /\ file.req = _write_lock[1].job.req
    /\ _write_lock[2].st = "waiting"
    /\ _write_lock[2].job.req = Len(requests)
    /\ _data = NoData

\* C13: when os.unlink finds no file, async_remove returns without an
\* exception and nothing of the store or its file changes; when os.unlink
\* fails for another reason the exception leaves async_remove and the file
\* stays as it was.
C13_RemoveToleratesAbsentFile ==
    [][\A i \in DOMAIN removes :
          (removes[i].st = "unlinking" /\ removes'[i].st # "unlinking")
          => /\ file = EmptyFile
                => /\ removes'[i].st = "returned"
                   /\ UNCHANGED store_vars
             /\ removes'[i].err \notin {"none", "FileNotFoundError"}
                => /\ removes'[i].st = "raised"
                   /\ file' = file]_vars

\* C13: a remove() found no file and returned; a save wrote the file, and
\* the remove() after it was refused and raised, leaving the file
C13_Witness ==
    /\ \E i \in DOMAIN removes :
           /\ removes[i].err = "FileNotFoundError"
           /\ removes[i].st = "returned"
    /\ \E i \in DOMAIN removes :
           /\ removes[i].err = "PermissionError"
           /\ removes[i].st = "raised"
    /\ file # EmptyFile

\* C14: a request whose physical write failed is not flushed a second time,
\* is not put back into the pending-write slot and is not in the file; the
\* write lock is never left held by nobody while a job waits for it, so
\* the jobs behind a failed write get the lock.
C14_FailedWriteTerminal ==
    /\ \A r \in DOMAIN requests :
           Failed(r)
           => /\ _data.req # r
              /\ file.req # r
              /\ \A i, j \in DOMAIN flushes :
                     (flushes[i] = r /\ flushes[j] = r) => i = j
    /\ _write_lock # <<>> => Head(_write_lock).st # "waiting"
    /\ \A i \in DOMAIN _write_lock :
           i > 1 => _write_lock[i].st = "waiting"

\* C14: the write of the first request failed, the save after it waited for
\* the lock behind it, got it and its payload is in the file
C14_Witness ==
    /\ Failed(1)
    /\ 2 \in completed
    /\ file.req = 2
    /\ file.data = Payload(2)
    /\ _write_lock = <<>>
    /\ _data = NoData

\* C15: while the host is stopping and the final-write event has not fired,
\* a step of async_save or async_delay_save, or the run of the callback of
\* a timer that expired, starts no flush and no physical write and arms no
\* timer; afterwards the pending write is in place (the new request's, or
\* the one the callback found) and the store's final-write listener is
\* armed.
C15_DeferralDuringShutdown ==
    [][(/\ hass_state = "stopping"
        /\ ~final_write_fired
        /\ \/ requests' # requests
           \/ \E t \in DOMAIN timers :
                  timers[t].st = "fired" /\ timers'[t].st = "ran")
       => /\ flushes' = flushes
          /\ flush_errors' = flush_errors
          /\ _write_lock' = _write_lock
          /\ file' = file
          /\ \A t \in DOMAIN timers' :
                 timers'[t].st = "armed"
                 => t \in DOMAIN timers /\ timers[t].st = "armed"
          /\ IF requests' # requests
             THEN _data'.req = Len(requests')
             ELSE _data' = _data
          /\ _unsub_final_write_listener' # 0
          /\ listeners'[_unsub_final_write_listener'] = "armed"]_vars

\* C15: a timer armed while running expired, its callback ran after the
\* host began to stop and deferred; then a save was made and deferred too
C15_Witness ==
    /\ hass_state = "stopping"
    /\ ~final_write_fired
    /\ \E t \in DOMAIN timers : timers[t].st = "ran"
    /\ requests # <<>>
    /\ requests[Len(requests)].state = "stopping"
    /\ requests[Len(requests)].kind = "save"
    /\ _data.req = Len(requests)
    /\ flushes = <<>>
    /\ flush_errors = 0
    /\ _unsub_final_write_listener # 0
    /\ listeners[_unsub_final_write_listener] = "armed"

\* Nothing is left that could still write before the process exits: the
\* final-write event has fired, every scheduled callback has run, no timer
\* is armed and no physical write is in flight
Settled ==
    /\ final_write_fired
    /\ Quiescent
    /\ ArmedTimers = {}
    /\ _write_lock = <<>>

\* C16: when the most recent save request was made while the host was
\* stopping and nothing is left that could still write, that request has
\* been handed to a physical write, which put it in the file unless the
\* write failed.
C16_ShutdownSavesReachDisk ==
    (/\ Settled
     /\ requests # <<>>
     /\ requests[Len(requests)].state = "stopping")
    => /\ Flushed(Len(requests))
       /\ Failed(Len(requests)) \/ file.req = Len(requests)

\* The final-write listeners that are registered and not yet reached by
\* the event
ArmedListeners == {l \in DOMAIN listeners : listeners[l] = "armed"}

\* No operation of the store is under way: no callback is scheduled, no
\* flush holds or awaits the write lock, no load cycle is running
Idle ==
    /\ Quiescent
    /\ _write_lock = <<>>
    /\ \A t \in DOMAIN tasks : tasks[t].st \in {"done", "failed"}

\* C17: whenever the store is idle and holds a pending write, exactly one
\* final-write listener is armed, the handle of the store is that
\* listener, and at most one delay timer is armed.
C17_PendingWriteCovered ==
    (Idle /\ _data # NoData)
    => /\ ArmedListeners = {_unsub_final_write_listener}
       /\ \A t, u \in ArmedTimers : t = u

\* C18: the flush routine has never been entered with self._data None.
C18_FlushHasData == flush_errors = 0

\* C19: once the migrator has deleted the legacy file, the store's file
\* holds the payload the migrator saved (or that of a later save request);
\* a migrator that found no legacy file makes no save request, deletes
\* nothing and returns what its load() call returns.
C19_LegacyMigrationKeepsData ==
    /\ migrator.pc = "done"
       => /\ ~old_file
          /\ migrator.req # 0
          /\ file.req >= migrator.req
    /\ migrator.pc \in {"no_config", "loading"}
       => /\ migrator.req = 0
          /\ ~old_file
    /\ migrator.pc = "loading" => migrator.caller \in DOMAIN callers

\* C20: once an async_remove has returned and as long as no save request
\* has been made since, the store's file is absent, and a load() called
\* after the remove returned has returned None if it has finished.
C20_RemovalNotUndone ==
    /\ RemovedLast => file = EmptyFile
    /\ \A c \in DOMAIN callers :
           (/\ callers[c].removed = Len(requests) + 1
            /\ Finished(c))
           => /\ Outcome(c) = "returned"
              /\ Result(c) = None

====
